---- MODULE Spec2Model ----
(***************************************************************************)
(* Model of mbytes.ByteBuffer (src/bytes.go): an in-memory byte buffer     *)
(* with a cursor, implementing io.Seeker, io.Reader, io.ReaderAt,          *)
(* io.Writer, io.WriterAt, io.ByteReader and io.ByteWriter.                *)
(*                                                                         *)
(* Go slices are modelled as TLA+ sequences (index i in Go is i+1 here);   *)
(* m.pos keeps its Go value (a 0-based offset).  Offsets and sizes are     *)
(* small, far from the width of int/int64, so int(offset) is the identity. *)
(***************************************************************************)
EXTENDS Integers, Sequences, FiniteSets, TLC

VARIABLES
    buff,   \* ByteBuffer.buff : the backing store
    pos,    \* ByteBuffer.pos  : the cursor
    call,   \* the public call that just returned: its arguments and results
    pre,    \* buff and pos as they were when that call started
    pc,     \* position of the caller's script ("any" = arbitrary caller)
    S,      \* the sequence (of bytes, of values) the caller's script works with
    other,  \* a second buffer or slice the caller holds (a clone, a copy of
            \* the bytes, the destination of a copy loop)
    cnt,    \* the caller's counter (values read so far, bytes copied so far)
    proc    \* the goroutines reading the buffer: where each is in its call,
            \* its arguments, locals and results

vars == <<buff, pos, call, pre, pc, S, other, cnt, proc>>

----------------------------------------------------------------------------
(* Bounds *)

MaxLen == 3        \* storage never grows beyond this many bytes
MaxSrc == 3        \* longest slice handed to Write / WriteAt
MaxDst == 2        \* longest slice handed to Read / ReadAt

----------------------------------------------------------------------------
(* Program constants *)

SeekStart   == 0
SeekCurrent == 1
SeekEnd     == 2
MaxVarintLen64 == 10

\* byte values the callers write; 129 has the varint continuation bit set
\* (a zero byte comes from New / Reset, which zero the storage)
SrcBytes == {1, 129}
\* offsets handed to Seek / ReadAt / WriteAt / ByteAt
Offsets == -(MaxLen + 1)..(MaxLen + 1)
\* values a destination slice is filled with before a read (never stored)
DstFills == {7}
\* values handed to WriteUInt64Var; their encodings stay within SrcBytes
VarVals == {0, 1, 129}
\* whence values handed to Seek: the three known ones and an unknown one
Whences == {SeekStart, SeekCurrent, SeekEnd, 3}

----------------------------------------------------------------------------
(* Helpers for Go built-ins *)

\* min_int is defined outside bytes.go; it is the minimum of two ints, as
\* the reads of TestByteBufferRead and TestByteBufferReadEOF return
min_int(a, b) == IF a < b THEN a ELSE b

\* make([]byte, n)
Make(n) == [i \in 1..n |-> 0]

\* s[from:]
SliceFrom(s, from) == SubSeq(s, from + 1, Len(s))

\* s[:to]
SliceTo(s, to) == SubSeq(s, 1, to)

\* copy(dst, src): the first min(len(dst), len(src)) elements of dst are
\* replaced, the rest of dst is kept
Copy(dst, src) ==
    LET k == IF Len(src) < Len(dst) THEN Len(src) ELSE Len(dst)
    IN  SubSeq(src, 1, k) \o SubSeq(dst, k + 1, Len(dst))

\* sequences over A of length 0..n
SeqsUpTo(A, n) == UNION {[1..k -> A] : k \in 0..n}

\* the record describing a public call
Call(op, src, off, whence, n, err, dst, val) ==
    [op |-> op, src |-> src, off |-> off, whence |-> whence,
     n |-> n, err |-> err, dst |-> dst, val |-> val]

----------------------------------------------------------------------------
(* The methods of ByteBuffer, as functions of the receiver (b = m.buff,    *)
(* cur = m.pos) and the arguments, giving the new fields and the results.  *)

\* variant: the position is reset to the size, not to zero
Reset_posAtEnd(size) == [buff |-> Make(size), pos |-> size]

\* Reset(size): a fresh zeroed buffer, position zero
Reset(size) == [buff |-> Make(size), pos |-> 0]

\* NewByteBuffer(size) = (&ByteBuffer{}).Reset(size)
NewByteBuffer(size) == Reset(size)

\* Clear() = Reset(0)
Clear == Reset(0)

Size(b) == Len(b)

Empty(b) == Len(b) = 0

\* bytes.Compare(a, b) from index i on: the first differing byte decides,
\* then the lengths
RECURSIVE CompareFrom(_, _, _)
CompareFrom(a, b, i) ==
    IF i > Len(a) \/ i > Len(b)
      THEN IF Len(a) < Len(b) THEN -1 ELSE IF Len(a) > Len(b) THEN 1 ELSE 0
    ELSE IF a[i] < b[i] THEN -1
    ELSE IF a[i] > b[i] THEN 1
    ELSE CompareFrom(a, b, i + 1)

\* bytes.Compare(a, b)
Compare(a, b) == CompareFrom(a, b, 1)

\* variant: the bytes from each buffer's position on are compared
CmpWith_fromPos(m, o) == Compare(SubSeq(m.buff, m.pos + 1, Len(m.buff)),
                                 SubSeq(o.buff, o.pos + 1, Len(o.buff)))

\* CmpWith(other) on buffers m and o (records of buff and pos)
CmpWith(m, o) == Compare(m.buff, o.buff)

\* variant: the internal slice itself is returned
Bytes_alias(b) == [buff |-> b, shares |-> TRUE]

\* Bytes(): make + copy.  shares tells whether the returned slice has the
\* backing array of m.buff: make allocates a new one
Bytes(b) == [buff |-> Copy(Make(Len(b)), b), shares |-> FALSE]

\* variant: the clone is given the slice of the source, r.buff = m.buff
Clone_alias(b) == [buff |-> b, pos |-> 0, shares |-> TRUE]

\* Clone(): NewByteBuffer(m.Size()), r.pos = 0, copy(r.buff, m.buff).
\* shares tells whether r.buff has the backing array of m.buff
Clone(b) ==
    LET r == NewByteBuffer(Size(b))
    IN  [buff |-> Copy(r.buff, b), pos |-> 0, shares |-> FALSE]

\* variant: the end itself counts as inside the buffer
posOverflow_gt(b, p) == p > Len(b)

posOverflow(b, p) == p >= Len(b)

\* variant: the target is validated and returned, m.pos is not updated
Seek_keepPos(b, cur, offset, whence) ==
    LET p == CASE whence = SeekStart   -> offset
               [] whence = SeekCurrent -> offset + cur
               [] whence = SeekEnd     -> offset + Len(b)
               [] OTHER                -> offset
    IN  IF whence \notin {SeekStart, SeekCurrent, SeekEnd}
          THEN [pos |-> cur, n |-> -1, err |-> "ErrWhenceUnknown"]
        ELSE IF p < 0
          THEN [pos |-> cur, n |-> -1, err |-> "ErrSeekNegative"]
        ELSE IF posOverflow(b, p)
          THEN [pos |-> cur, n |-> -1, err |-> "ErrSeekOverflow"]
        ELSE [pos |-> cur, n |-> p, err |-> "nil"]

\* variant: SeekEnd subtracts the offset from the length
Seek_endMinus(b, cur, offset, whence) ==
    LET p == CASE whence = SeekStart   -> offset
               [] whence = SeekCurrent -> offset + cur
               [] whence = SeekEnd     -> Len(b) - offset
               [] OTHER                -> offset
    IN  IF whence \notin {SeekStart, SeekCurrent, SeekEnd}
          THEN [pos |-> cur, n |-> -1, err |-> "ErrWhenceUnknown"]
        ELSE IF p < 0
          THEN [pos |-> cur, n |-> -1, err |-> "ErrSeekNegative"]
        ELSE IF posOverflow(b, p)
          THEN [pos |-> cur, n |-> -1, err |-> "ErrSeekOverflow"]
        ELSE [pos |-> p, n |-> p, err |-> "nil"]

\* Seek(offset, whence) -> (int64, error), and the new m.pos
Seek(b, cur, offset, whence) ==
    LET p == CASE whence = SeekStart   -> offset
               [] whence = SeekCurrent -> offset + cur
               [] whence = SeekEnd     -> offset + Len(b)
               [] OTHER                -> offset
    IN  IF whence \notin {SeekStart, SeekCurrent, SeekEnd}
          THEN [pos |-> cur, n |-> -1, err |-> "ErrWhenceUnknown"]
        ELSE IF p < 0
          THEN [pos |-> cur, n |-> -1, err |-> "ErrSeekNegative"]
        ELSE IF posOverflow(b, p)
          THEN [pos |-> cur, n |-> -1, err |-> "ErrSeekOverflow"]
        ELSE [pos |-> p, n |-> p, err |-> "nil"]

\* variant: the position advances by len(p), not by the bytes read
readFromPos_advLen(b, cur, p, at, incPos) ==
    LET l     == Len(p)
        avail == Len(b) - at
        n     == min_int(avail, l)
    IN  IF avail > 0
          THEN [pos |-> IF incPos THEN cur + l ELSE cur,
                p   |-> Copy(p, SliceFrom(b, at)),
                n   |-> n,
                err |-> IF n < l THEN "EOF" ELSE "nil"]
          ELSE [pos |-> cur, p |-> p, n |-> -1, err |-> "EOF"]

\* variant: io.EOF is also reported when the read consumes the last byte
readFromPos_eofAtEnd(b, cur, p, at, incPos) ==
    LET l     == Len(p)
        avail == Len(b) - at
        n     == min_int(avail, l)
    IN  IF avail > 0
          THEN [pos |-> IF incPos THEN cur + n ELSE cur,
                p   |-> Copy(p, SliceFrom(b, at)),
                n   |-> n,
                err |-> IF n < l \/ n = avail THEN "EOF" ELSE "nil"]
          ELSE [pos |-> cur, p |-> p, n |-> -1, err |-> "EOF"]

\* variant: the position is advanced whoever calls
readFromPos_alwaysInc(b, cur, p, at, incPos) ==
    LET l     == Len(p)
        avail == Len(b) - at
        n     == min_int(avail, l)
    IN  IF avail > 0
          THEN [pos |-> cur + n,
                p   |-> Copy(p, SliceFrom(b, at)),
                n   |-> n,
                err |-> IF n < l THEN "EOF" ELSE "nil"]
          ELSE [pos |-> cur, p |-> p, n |-> -1, err |-> "EOF"]

\* readFromPos(p, pos, incPos) -> (n, err), with the new m.pos and the
\* contents of p afterwards
readFromPos(b, cur, p, at, incPos) ==
    LET l     == Len(p)
        avail == Len(b) - at
        n     == min_int(avail, l)
    IN  IF avail > 0
          THEN [pos |-> IF incPos THEN cur + n ELSE cur,
                p   |-> Copy(p, SliceFrom(b, at)),
                n   |-> n,
                err |-> IF n < l THEN "EOF" ELSE "nil"]
          ELSE [pos |-> cur, p |-> p, n |-> -1, err |-> "EOF"]

\* the convenience forms of Seek
SeekFromStart(b, cur, offset)   == Seek(b, cur, offset, SeekStart)
SeekFromCurrent(b, cur, offset) == Seek(b, cur, offset, SeekCurrent)
SeekFromEnd(b, cur, offset)     == Seek(b, cur, offset, SeekEnd)
SeekToStart(b, cur)             == Seek(b, cur, 0, SeekStart)
\* variant: the target is the last byte of the storage
SeekToEnd_lastByte(b, cur) == Seek(b, cur, -1, SeekEnd)

\* variant: the position is put at the end of the storage
SeekToEnd_jump(b, cur) == [pos |-> Len(b), n |-> Len(b), err |-> "nil"]

SeekToEnd(b, cur)               == Seek(b, cur, 0, SeekEnd)

\* Read(p) = readFromPos(p, m.pos, true)
\* variant: Read leaves the position where it was
Read_noAdvance(b, cur, p) == readFromPos(b, cur, p, cur, FALSE)

Read(b, cur, p) == readFromPos(b, cur, p, cur, TRUE)

\* variant: the positional read advances the position like Read
ReadAt_incPos(b, cur, p, off) ==
    IF off < 0
      THEN [pos |-> cur, p |-> p, n |-> -1, err |-> "ErrOffsetNegative"]
    ELSE IF posOverflow(b, off)
      THEN [pos |-> cur, p |-> p, n |-> -1, err |-> "ErrOffsetOverflow"]
    ELSE readFromPos(b, cur, p, off, TRUE)

\* ReadAt(p, off)
ReadAt(b, cur, p, off) ==
    IF off < 0
      THEN [pos |-> cur, p |-> p, n |-> -1, err |-> "ErrOffsetNegative"]
    ELSE IF posOverflow(b, off)
      THEN [pos |-> cur, p |-> p, n |-> -1, err |-> "ErrOffsetOverflow"]
    ELSE readFromPos(b, cur, p, off, FALSE)

\* variant: the whole of p is appended, not p[noverlap:]
writeFromPos_noSplit(b, p, at) ==
    LET l        == Len(p)
        noverlap == IF Len(b) - at > l THEN l ELSE Len(b) - at
        nappend  == l - noverlap
        over     == IF noverlap > 0
                      THEN SliceTo(b, at) \o Copy(SliceFrom(b, at), SliceTo(p, noverlap))
                      ELSE b
        grown    == IF nappend > 0 THEN over \o p ELSE over
    IN  [buff |-> grown, appended |-> nappend, written |-> l, err |-> "nil"]

\* writeFromPos(p, pos) -> (appended, written, err), with the new m.buff
\* variant: the whole of p is appended after the overlap was copied
writeFromPos_appendAll(b, p, at) ==
    LET l        == Len(p)
        noverlap == IF Len(b) - at > l THEN l ELSE Len(b) - at
        nappend  == l - noverlap
        over     == IF noverlap > 0
                      THEN SliceTo(b, at) \o Copy(SliceFrom(b, at), SliceTo(p, noverlap))
                      ELSE b
        grown    == IF nappend > 0 THEN over \o p ELSE over
    IN  [buff |-> grown, appended |-> nappend, written |-> l, err |-> "nil"]

writeFromPos(b, p, at) ==
    LET l        == Len(p)
        noverlap == IF Len(b) - at > l THEN l ELSE Len(b) - at
        nappend  == l - noverlap
        over     == IF noverlap > 0
                      THEN SliceTo(b, at) \o Copy(SliceFrom(b, at), SliceTo(p, noverlap))
                      ELSE b
        grown    == IF nappend > 0 THEN over \o SliceFrom(p, noverlap) ELSE over
    IN  [buff |-> grown, appended |-> nappend, written |-> l, err |-> "nil"]

\* variant: the position advances by the bytes written, not the bytes appended
Write_advTotal(b, cur, p) ==
    LET w == writeFromPos(b, p, cur)
    IN  [buff |-> w.buff, pos |-> cur + w.written, n |-> w.written, err |-> w.err]

\* Write(p) -> (n, err), with the new fields
\* variant: Write leaves the position where it was
Write_keepPos(b, cur, p) ==
    LET w == writeFromPos(b, p, cur)
    IN  IF w.err # "nil"
          THEN [buff |-> w.buff, pos |-> cur, n |-> -1, err |-> w.err]
          ELSE [buff |-> w.buff, pos |-> cur, n |-> w.written, err |-> w.err]

Write(b, cur, p) ==
    LET w == writeFromPos(b, p, cur)
    IN  IF w.err # "nil"
          THEN [buff |-> w.buff, pos |-> cur, n |-> -1, err |-> w.err]
          ELSE [buff |-> w.buff, pos |-> cur + w.appended, n |-> w.written, err |-> w.err]

\* variant: the position is set from the offset, m.pos = off + appended
WriteAt_setOff(b, cur, p, off) ==
    IF off < 0
      THEN [buff |-> b, pos |-> cur, n |-> -1, err |-> "ErrOffsetNegative"]
    ELSE IF posOverflow(b, off)
      THEN [buff |-> b, pos |-> cur, n |-> -1, err |-> "ErrOffsetOverflow"]
    ELSE LET w == writeFromPos(b, p, off)
         IN  [buff |-> w.buff, pos |-> off + w.appended, n |-> w.written, err |-> w.err]

\* variant: the position advances by the bytes written
WriteAt_advWritten(b, cur, p, off) ==
    IF off < 0
      THEN [buff |-> b, pos |-> cur, n |-> -1, err |-> "ErrOffsetNegative"]
    ELSE IF posOverflow(b, off)
      THEN [buff |-> b, pos |-> cur, n |-> -1, err |-> "ErrOffsetOverflow"]
    ELSE LET w == writeFromPos(b, p, off)
         IN  [buff |-> w.buff, pos |-> cur + w.written, n |-> w.written, err |-> w.err]

\* variant: only a negative offset is rejected
WriteAt_noOverflowCheck(b, cur, p, off) ==
    IF off < 0
      THEN [buff |-> b, pos |-> cur, n |-> -1, err |-> "ErrOffsetNegative"]
    ELSE LET at == IF off > Len(b) THEN Len(b) ELSE off
             w  == writeFromPos(b, p, at)
         IN  [buff |-> w.buff, pos |-> cur + w.appended, n |-> w.written, err |-> w.err]

\* WriteAt(p, off) -> (n, err), with the new fields
WriteAt(b, cur, p, off) ==
    IF off < 0
      THEN [buff |-> b, pos |-> cur, n |-> -1, err |-> "ErrOffsetNegative"]
    ELSE IF posOverflow(b, off)
      THEN [buff |-> b, pos |-> cur, n |-> -1, err |-> "ErrOffsetOverflow"]
    ELSE LET w == writeFromPos(b, p, off)
         IN  IF w.err # "nil"
               THEN [buff |-> w.buff, pos |-> cur, n |-> -1, err |-> w.err]
               ELSE [buff |-> w.buff, pos |-> cur + w.appended, n |-> w.written,
                     err |-> w.err]

\* ReadByte() -> (byte, error), with the new m.pos
\* variant: the byte is read into a slice of two
ReadByte_sliceOfTwo(b, cur) ==
    LET r == Read(b, cur, Make(2))
    IN  IF r.err # "nil" THEN [pos |-> r.pos, val |-> 0, err |-> r.err]
        ELSE IF r.n # 1  THEN [pos |-> r.pos, val |-> 0, err |-> "ErrByteRead"]
        ELSE [pos |-> r.pos, val |-> r.p[1], err |-> "nil"]

ReadByte(b, cur) ==
    LET r == Read(b, cur, Make(1))
    IN  IF r.err # "nil" THEN [pos |-> r.pos, val |-> 0, err |-> r.err]
        ELSE IF r.n # 1  THEN [pos |-> r.pos, val |-> 0, err |-> "ErrByteRead"]
        ELSE [pos |-> r.pos, val |-> r.p[1], err |-> "nil"]

\* variant: the position is left on the appended byte, not after it
WriteByte_posAtLast(b, c) ==
    LET nb == Append(b, c)
    IN  [buff |-> nb, pos |-> Len(nb) - 1, err |-> "nil"]

\* WriteByte(c): append, position at the new end
WriteByte(b, c) ==
    LET nb == Append(b, c)
    IN  [buff |-> nb, pos |-> Len(nb), err |-> "nil"]

\* ByteAt(pos) -> (byte, error)
\* variant: the byte is read at the cursor
ByteAt_atCursor(b, cur, at) ==
    LET r == ReadAt(b, cur, Make(1), cur)
    IN  IF r.err # "nil" THEN [pos |-> r.pos, val |-> 0, err |-> r.err]
        ELSE IF r.n # 1  THEN [pos |-> r.pos, val |-> 0, err |-> "ErrByteRead"]
        ELSE [pos |-> r.pos, val |-> r.p[1], err |-> "nil"]

ByteAt(b, cur, at) ==
    LET r == ReadAt(b, cur, Make(1), at)
    IN  IF r.err # "nil" THEN [pos |-> r.pos, val |-> 0, err |-> r.err]
        ELSE IF r.n # 1  THEN [pos |-> r.pos, val |-> 0, err |-> "ErrByteRead"]
        ELSE [pos |-> r.pos, val |-> r.p[1], err |-> "nil"]

\* binary.PutUvarint: the bytes written into buff[:n]
\* variant: the 7-bit groups are stored without the continuation bit
RECURSIVE PutUvarint_noFlag(_)
PutUvarint_noFlag(x) ==
    IF x >= 128 THEN <<x % 128>> \o PutUvarint_noFlag(x \div 128)
                ELSE <<x>>

RECURSIVE PutUvarint(_)
PutUvarint(x) ==
    IF x >= 128 THEN <<(x % 128) + 128>> \o PutUvarint(x \div 128)
                ELSE <<x>>

\* WriteUInt64Var(x) = Write(buff[:n]) of the varint encoding of x
WriteUInt64Var(b, cur, x) == Write(b, cur, PutUvarint(x))

\* binary.ReadUvarint over ReadByte: the loop from iteration i on, with x
\* accumulated so far and mul = 2^s.  midEOF is the error a build of the
\* library reports when the bytes end inside a varint (io.EOF before
\* Go 1.16, io.ErrUnexpectedEOF since).
RECURSIVE ReadUvarintFrom(_, _, _, _, _, _)
ReadUvarintFrom(b, cur, i, x, mul, midEOF) ==
    IF i >= MaxVarintLen64
      THEN [pos |-> cur, val |-> x, err |-> "errOverflow"]
    ELSE LET r == ReadByte(b, cur)
         IN  IF r.err # "nil"
               THEN [pos |-> r.pos, val |-> x,
                     err |-> IF i > 0 /\ r.err = "EOF" THEN midEOF ELSE r.err]
             ELSE IF r.val < 128
               THEN IF i = MaxVarintLen64 - 1 /\ r.val > 1
                      THEN [pos |-> r.pos, val |-> x, err |-> "errOverflow"]
                      ELSE [pos |-> r.pos, val |-> x + r.val * mul, err |-> "nil"]
             ELSE ReadUvarintFrom(b, r.pos, i + 1, x + (r.val % 128) * mul,
                                  mul * 128, midEOF)

\* ReadUInt64Var() = binary.ReadUvarint(m)
ReadUInt64Var(b, cur, midEOF) == ReadUvarintFrom(b, cur, 0, 0, 1, midEOF)

----------------------------------------------------------------------------
(* One public call on the buffer: the fields change as the method says,    *)
(* call records the arguments and results, pre the fields before the call. *)

Snapshot == [buff |-> buff, pos |-> pos]

\* no call has returned since the caller last took its results
NoCall == Call("none", <<>>, 0, 0, 0, "nil", <<>>, 0)

NoPre == [buff |-> <<>>, pos |-> 0]

\* the caller holds no second buffer.  kind says what other is; shares says
\* whether its slice has the backing array of m.buff; orig and pos0 are the
\* storage and position of the buffer it was taken from, at that moment
NoOther == [kind |-> "none", buff |-> <<>>, pos |-> 0, shares |-> FALSE,
            orig |-> <<>>, pos0 |-> 0]

\* slices a caller hands to Write / WriteAt
\* the goroutines that call ReadAt or ByteAt on the buffer
Procs == {1, 2}

\* a goroutine that has not called yet
NoProc == [pc |-> "idle", op |-> "none", off |-> 0, p0 |-> <<>>, p |-> <<>>,
           n |-> 0, err |-> "nil", val |-> 0]

NoProcs == [i \in Procs |-> NoProc]

Srcs == SeqsUpTo(SrcBytes, MaxSrc)

\* slices a caller hands to Read / ReadAt
Dsts == UNION {[1..k -> DstFills] : k \in 0..MaxDst}

DoReset(size) ==
    LET r == Reset(size)
    IN  /\ buff' = r.buff
        /\ pos' = r.pos
        /\ call' = Call("Reset", <<>>, size, 0, 0, "nil", <<>>, 0)
        /\ pre' = Snapshot

DoClear ==
    LET r == Clear
    IN  /\ buff' = r.buff
        /\ pos' = r.pos
        /\ call' = Call("Clear", <<>>, 0, 0, 0, "nil", <<>>, 0)
        /\ pre' = Snapshot

\* the clone is returned to the caller: call.dst is its buff, call.n its pos
DoClone ==
    LET r == Clone(buff)
    IN  /\ call' = Call("Clone", <<>>, 0, 0, r.pos, "nil", r.buff, 0)
        /\ pre' = Snapshot
        /\ UNCHANGED <<buff, pos>>

DoBytes ==
    LET r == Bytes(buff)
    IN  /\ call' = Call("Bytes", <<>>, 0, 0, 0, "nil", r.buff, 0)
        /\ pre' = Snapshot
        /\ UNCHANGED <<buff, pos>>

DoSeekAs(name, offset, whence, r) ==
    /\ pos' = r.pos
    /\ call' = Call(name, <<>>, offset, whence, r.n, r.err, <<>>, 0)
    /\ pre' = Snapshot
    /\ UNCHANGED buff

DoSeek(offset, whence) ==
    DoSeekAs("Seek", offset, whence, Seek(buff, pos, offset, whence))

DoSeekFromStart(offset) ==
    DoSeekAs("SeekFromStart", offset, SeekStart, SeekFromStart(buff, pos, offset))

DoSeekFromCurrent(offset) ==
    DoSeekAs("SeekFromCurrent", offset, SeekCurrent, SeekFromCurrent(buff, pos, offset))

DoSeekFromEnd(offset) ==
    DoSeekAs("SeekFromEnd", offset, SeekEnd, SeekFromEnd(buff, pos, offset))

DoSeekToStart == DoSeekAs("SeekToStart", 0, SeekStart, SeekToStart(buff, pos))

DoSeekToEnd == DoSeekAs("SeekToEnd", 0, SeekEnd, SeekToEnd(buff, pos))

DoRead(p) ==
    LET r == Read(buff, pos, p)
    IN  /\ pos' = r.pos
        /\ call' = Call("Read", p, 0, 0, r.n, r.err, r.p, 0)
        /\ pre' = Snapshot
        /\ UNCHANGED buff

DoReadAt(p, off) ==
    LET r == ReadAt(buff, pos, p, off)
    IN  /\ pos' = r.pos
        /\ call' = Call("ReadAt", p, off, 0, r.n, r.err, r.p, 0)
        /\ pre' = Snapshot
        /\ UNCHANGED buff

DoReadByte ==
    LET r == ReadByte(buff, pos)
    IN  /\ pos' = r.pos
        /\ call' = Call("ReadByte", <<>>, 0, 0, 0, r.err, <<>>, r.val)
        /\ pre' = Snapshot
        /\ UNCHANGED buff

DoByteAt(at) ==
    LET r == ByteAt(buff, pos, at)
    IN  /\ pos' = r.pos
        /\ call' = Call("ByteAt", <<>>, at, 0, 0, r.err, <<>>, r.val)
        /\ pre' = Snapshot
        /\ UNCHANGED buff

\* storage is capped at MaxLen bytes: larger writes are not explored
DoWrite(p) ==
    LET r == Write(buff, pos, p)
    IN  /\ Len(r.buff) <= MaxLen
        /\ buff' = r.buff
        /\ pos' = r.pos
        /\ call' = Call("Write", p, 0, 0, r.n, r.err, <<>>, 0)
        /\ pre' = Snapshot

DoWriteAt(p, off) ==
    LET r == WriteAt(buff, pos, p, off)
    IN  /\ Len(r.buff) <= MaxLen
        /\ buff' = r.buff
        /\ pos' = r.pos
        /\ call' = Call("WriteAt", p, off, 0, r.n, r.err, <<>>, 0)
        /\ pre' = Snapshot

DoWriteByte(c) ==
    LET r == WriteByte(buff, c)
    IN  /\ Len(r.buff) <= MaxLen
        /\ buff' = r.buff
        /\ pos' = r.pos
        /\ call' = Call("WriteByte", <<c>>, 0, 0, 0, r.err, <<>>, 0)
        /\ pre' = Snapshot

DoWriteUInt64Var(x) ==
    LET r == WriteUInt64Var(buff, pos, x)
    IN  /\ Len(r.buff) <= MaxLen
        /\ buff' = r.buff
        /\ pos' = r.pos
        /\ call' = Call("WriteUInt64Var", <<>>, 0, 0, r.n, r.err, <<>>, x)
        /\ pre' = Snapshot

DoReadUInt64Var(midEOF) ==
    LET r == ReadUInt64Var(buff, pos, midEOF)
    IN  /\ pos' = r.pos
        /\ call' = Call("ReadUInt64Var", <<>>, 0, 0, 0, r.err, <<>>, r.val)
        /\ pre' = Snapshot
        /\ UNCHANGED buff

----------------------------------------------------------------------------
(* An arbitrary caller: any public call, in any order, on a buffer made by *)
(* NewByteBuffer(size).                                                    *)

Init ==
    \E size \in 0..MaxLen :
        LET r == NewByteBuffer(size)
        IN  /\ buff = r.buff
            /\ pos = r.pos
            /\ call = Call("New", <<>>, size, 0, 0, "nil", <<>>, 0)
            /\ pre = NoPre
            /\ pc = "any"
            /\ S = <<>>
            /\ other = NoOther
            /\ cnt = 0
            /\ proc = NoProcs

\* the caller is between two calls
Free == pc = "any" /\ call = NoCall /\ UNCHANGED <<pc, S, other, cnt, proc>>

\* the caller takes the results of the call that returned; the buffer is
\* untouched
Return ==
    /\ pc = "any"
    /\ call # NoCall
    /\ call' = NoCall
    /\ pre' = NoPre
    /\ UNCHANGED <<buff, pos, pc, S, other, cnt, proc>>

OpReset == Free /\ \E size \in 0..MaxLen : DoReset(size)

OpClear == Free /\ DoClear

OpClone == Free /\ DoClone

OpBytes == Free /\ DoBytes

OpSeek == Free /\ \E offset \in Offsets, whence \in Whences : DoSeek(offset, whence)

OpSeekFromStart == Free /\ \E offset \in Offsets : DoSeekFromStart(offset)

OpSeekFromCurrent == Free /\ \E offset \in Offsets : DoSeekFromCurrent(offset)

OpSeekFromEnd == Free /\ \E offset \in Offsets : DoSeekFromEnd(offset)

OpSeekToStart == Free /\ DoSeekToStart

OpSeekToEnd == Free /\ DoSeekToEnd

OpRead == Free /\ \E p \in Dsts : DoRead(p)

OpReadAt == Free /\ \E p \in Dsts, off \in Offsets : DoReadAt(p, off)

OpReadByte == Free /\ DoReadByte

OpByteAt == Free /\ \E at \in Offsets : DoByteAt(at)

OpWrite == Free /\ \E p \in Srcs : DoWrite(p)

OpWriteAt == Free /\ \E p \in Srcs, off \in Offsets : DoWriteAt(p, off)

OpWriteByte == Free /\ \E c \in SrcBytes : DoWriteByte(c)

OpWriteUInt64Var == Free /\ \E x \in VarVals : DoWriteUInt64Var(x)

OpReadUInt64Var == Free /\ \E midEOF \in {"EOF", "ErrUnexpectedEOF"} : DoReadUInt64Var(midEOF)

Next ==
    \/ Return
    \/ OpReset
    \/ OpClear
    \/ OpClone
    \/ OpBytes
    \/ OpSeek
    \/ OpSeekFromStart
    \/ OpSeekFromCurrent
    \/ OpSeekFromEnd
    \/ OpSeekToStart
    \/ OpSeekToEnd
    \/ OpRead
    \/ OpReadAt
    \/ OpReadByte
    \/ OpByteAt
    \/ OpWrite
    \/ OpWriteAt
    \/ OpWriteByte
    \/ OpWriteUInt64Var
    \/ OpReadUInt64Var

Spec == Init /\ [][Next]_vars

----------------------------------------------------------------------------
(* The round-trip script of the README and TestByteBufferWrite:            *)
(* b := NewByteBuffer(0); b.Write(S); b.SeekToStart(); b.Read(rbuff) with  *)
(* rbuff := make([]byte, len(S)).  The script goes on whatever a step      *)
(* returns.                                                                *)

RTSeqs == SeqsUpTo({0} \cup SrcBytes, MaxSrc)

InitRT ==
    \E s \in RTSeqs :
        LET r == NewByteBuffer(0)
        IN  /\ buff = r.buff
            /\ pos = r.pos
            /\ call = Call("New", <<>>, 0, 0, 0, "nil", <<>>, 0)
            /\ pre = NoPre
            /\ pc = "rt_write"
            /\ S = s
            /\ other = NoOther
            /\ cnt = 0
            /\ proc = NoProcs

RTWrite == pc = "rt_write" /\ DoWrite(S) /\ pc' = "rt_seek" /\ UNCHANGED <<S, other, cnt, proc>>

RTSeekToStart ==
    pc = "rt_seek" /\ DoSeekToStart /\ pc' = "rt_read" /\ UNCHANGED <<S, other, cnt, proc>>

RTRead ==
    pc = "rt_read" /\ DoRead(Make(Len(S))) /\ pc' = "rt_done" /\ UNCHANGED <<S, other, cnt, proc>>

NextRT ==
    \/ RTWrite
    \/ RTSeekToStart
    \/ RTRead

SpecRT == InitRT /\ [][NextRT]_vars

----------------------------------------------------------------------------
(* A caller that takes a clone or a copy of the bytes of a buffer in any   *)
(* state, and then writes to the buffer or to the clone.  A slice that     *)
(* shares the backing array of another sees what copy() writes in place    *)
(* into it; append and make leave the bytes already in the array alone.    *)

\* the storages a buffer can hold, and the buffers with their positions
Storages == SeqsUpTo({0} \cup SrcBytes, MaxLen)

\* what the holder of o sees once the storage it may share has become nb
SeenThrough(o, nb) ==
    IF o.shares /\ Len(nb) >= Len(o.buff)
      THEN [o EXCEPT !.buff = SubSeq(nb, 1, Len(o.buff))]
      ELSE o

InitClone ==
    \E b \in Storages :
        \E c \in 0..Len(b) :
            /\ buff = b
            /\ pos = c
            /\ call = NoCall
            /\ pre = NoPre
            /\ pc = "cl_start"
            /\ S = <<>>
            /\ other = NoOther
            /\ cnt = 0
            /\ proc = NoProcs

CLClone ==
    /\ pc = "cl_start"
    /\ DoClone
    /\ LET r == Clone(buff)
       IN  other' = [kind |-> "clone", buff |-> r.buff, pos |-> r.pos,
                     shares |-> r.shares, orig |-> buff, pos0 |-> pos]
    /\ pc' = "cl_have"
    /\ UNCHANGED <<S, cnt, proc>>

CLBytes ==
    /\ pc = "cl_start"
    /\ DoBytes
    /\ LET r == Bytes(buff)
       IN  other' = [kind |-> "bytes", buff |-> r.buff, pos |-> 0,
                     shares |-> r.shares, orig |-> buff, pos0 |-> pos]
    /\ pc' = "cl_have"
    /\ UNCHANGED <<S, cnt, proc>>

\* a later call on the buffer the clone or copy was taken from
CLSource(step) ==
    /\ pc = "cl_have"
    /\ step
    /\ pc' = "cl_source"
    /\ UNCHANGED <<S, cnt, proc>>

CLSourceWrite ==
    CLSource(\E p \in Srcs : DoWrite(p) /\ other' = SeenThrough(other, buff'))

CLSourceWriteAt ==
    CLSource(\E p \in Srcs, off \in Offsets :
                 DoWriteAt(p, off) /\ other' = SeenThrough(other, buff'))

CLSourceWriteByte == CLSource(\E c \in SrcBytes : DoWriteByte(c) /\ other' = other)

CLSourceReset == CLSource(\E size \in 0..MaxLen : DoReset(size) /\ other' = other)

\* a later call on the clone: r is what the method gives on the clone's
\* fields; the source sees what is written in place if the array is shared
CLOnClone(name, r, inPlace) ==
    /\ pc = "cl_have"
    /\ other.kind = "clone"
    /\ Len(r.buff) <= MaxLen
    /\ other' = [other EXCEPT !.buff = r.buff, !.pos = r.pos]
    /\ buff' = IF other.shares /\ inPlace /\ Len(r.buff) >= Len(buff)
                 THEN SubSeq(r.buff, 1, Len(buff)) ELSE buff
    /\ call' = Call(name, <<>>, 0, 0, 0, r.err, <<>>, 0)
    /\ pre' = Snapshot
    /\ pc' = "cl_clone"
    /\ UNCHANGED <<pos, S, cnt, proc>>

CLCloneWrite ==
    \E p \in Srcs : CLOnClone("Write", Write(other.buff, other.pos, p), TRUE)

CLCloneWriteAt ==
    \E p \in Srcs, off \in Offsets :
        CLOnClone("WriteAt", WriteAt(other.buff, other.pos, p, off), TRUE)

CLCloneWriteByte ==
    \E c \in SrcBytes : CLOnClone("WriteByte", WriteByte(other.buff, c), FALSE)

CLCloneReset ==
    \E size \in 0..MaxLen :
        CLOnClone("Reset", [buff |-> Reset(size).buff, pos |-> Reset(size).pos,
                            err |-> "nil"], FALSE)

NextClone ==
    \/ CLClone
    \/ CLBytes
    \/ CLSourceWrite
    \/ CLSourceWriteAt
    \/ CLSourceWriteByte
    \/ CLSourceReset
    \/ CLCloneWrite
    \/ CLCloneWriteAt
    \/ CLCloneWriteByte
    \/ CLCloneReset

SpecClone == InitClone /\ [][NextClone]_vars

----------------------------------------------------------------------------
(* A caller that compares buffers: m (buff, pos), o (other) and a third    *)
(* one whose storage is S, in any states, and calls CmpWith on the pairs.  *)

MaxCmp == 2        \* longest storage compared

CmpStorages == SeqsUpTo({0} \cup SrcBytes, MaxCmp)

InitCmp ==
    \E a \in CmpStorages, b \in CmpStorages, c \in CmpStorages :
        \E pa \in {0, Len(a)}, pb \in {0, Len(b)} :
            /\ buff = a
            /\ pos = pa
            /\ call = NoCall
            /\ pre = NoPre
            /\ pc = "cmp_start"
            /\ S = c
            /\ other = [NoOther EXCEPT !.kind = "buffer", !.buff = b, !.pos = pb]
            /\ cnt = 0
            /\ proc = NoProcs

\* call.n is m.CmpWith(o); call.dst holds o.CmpWith(m), o.CmpWith(third)
\* and m.CmpWith(third)
CmpCalls ==
    /\ pc = "cmp_start"
    /\ LET m     == [buff |-> buff, pos |-> pos]
           o     == [buff |-> other.buff, pos |-> other.pos]
           third == [buff |-> S, pos |-> 0]
       IN  call' = Call("CmpWith", <<>>, 0, 0, CmpWith(m, o), "nil",
                        <<CmpWith(o, m), CmpWith(o, third), CmpWith(m, third)>>, 0)
    /\ pre' = Snapshot
    /\ pc' = "cmp_done"
    /\ UNCHANGED <<buff, pos, S, other, cnt, proc>>

NextCmp == CmpCalls

SpecCmp == InitCmp /\ [][NextCmp]_vars

----------------------------------------------------------------------------
(* A caller that writes the values of S as varints into a new buffer,      *)
(* seeks to the start, reads one value per value written, and reads once   *)
(* more.  cnt counts the values written, then the values read.             *)

RECURSIVE Encoded(_)
Encoded(s) == IF s = <<>> THEN <<>> ELSE PutUvarint(Head(s)) \o Encoded(Tail(s))

\* value lists whose encoding fits the storage bound; 16384 = 2^14 takes
\* three bytes
VarSeqs == {s \in SeqsUpTo(VarVals \cup {16384}, MaxLen) : Len(Encoded(s)) <= MaxLen}

MidEOFs == {"EOF", "ErrUnexpectedEOF"}

InitVar ==
    \E s \in VarSeqs :
        LET r == NewByteBuffer(0)
        IN  /\ buff = r.buff
            /\ pos = r.pos
            /\ call = Call("New", <<>>, 0, 0, 0, "nil", <<>>, 0)
            /\ pre = NoPre
            /\ pc = "var_write"
            /\ S = s
            /\ other = NoOther
            /\ cnt = 0
            /\ proc = NoProcs

VarWrite ==
    /\ pc = "var_write"
    /\ cnt < Len(S)
    /\ DoWriteUInt64Var(S[cnt + 1])
    /\ cnt' = cnt + 1
    /\ UNCHANGED <<pc, S, other, proc>>

VarSeekToStart ==
    /\ pc = "var_write"
    /\ cnt = Len(S)
    /\ DoSeekToStart
    /\ pc' = "var_read"
    /\ cnt' = 0
    /\ UNCHANGED <<S, other, proc>>

VarRead ==
    /\ pc = "var_read"
    /\ cnt < Len(S)
    /\ \E midEOF \in MidEOFs : DoReadUInt64Var(midEOF)
    /\ cnt' = cnt + 1
    /\ UNCHANGED <<pc, S, other, proc>>

VarReadPast ==
    /\ pc = "var_read"
    /\ cnt = Len(S)
    /\ \E midEOF \in MidEOFs : DoReadUInt64Var(midEOF)
    /\ pc' = "var_done"
    /\ UNCHANGED <<S, other, cnt, proc>>

NextVar ==
    \/ VarWrite
    \/ VarSeekToStart
    \/ VarRead
    \/ VarReadPast

SpecVar == InitVar /\ [][NextVar]_vars

----------------------------------------------------------------------------
(* A caller that writes the bytes of S one by one into a new buffer, looks *)
(* at them with ByteAt, seeks to the start, reads them back one by one and *)
(* reads once more.  cnt counts the bytes written, then the bytes read.    *)

ByteSeqs == Storages \ {<<>>}

InitByte ==
    \E s \in ByteSeqs :
        LET r == NewByteBuffer(0)
        IN  /\ buff = r.buff
            /\ pos = r.pos
            /\ call = Call("New", <<>>, 0, 0, 0, "nil", <<>>, 0)
            /\ pre = NoPre
            /\ pc = "b_write"
            /\ S = s
            /\ other = NoOther
            /\ cnt = 0
            /\ proc = NoProcs

ByteWrite ==
    /\ pc = "b_write"
    /\ cnt < Len(S)
    /\ DoWriteByte(S[cnt + 1])
    /\ cnt' = cnt + 1
    /\ pc' = IF cnt' = Len(S) THEN "b_at" ELSE "b_write"
    /\ UNCHANGED <<S, other, proc>>

ByteLookAt ==
    /\ pc = "b_at"
    /\ \E i \in 0..(Len(S) - 1) : DoByteAt(i)
    /\ UNCHANGED <<pc, S, other, cnt, proc>>

ByteSeekToStart ==
    /\ pc = "b_at"
    /\ DoSeekToStart
    /\ pc' = "b_read"
    /\ cnt' = 0
    /\ UNCHANGED <<S, other, proc>>

ByteRead ==
    /\ pc = "b_read"
    /\ cnt < Len(S)
    /\ DoReadByte
    /\ cnt' = cnt + 1
    /\ UNCHANGED <<pc, S, other, proc>>

ByteReadPast ==
    /\ pc = "b_read"
    /\ cnt = Len(S)
    /\ DoReadByte
    /\ pc' = "b_done"
    /\ UNCHANGED <<S, other, cnt, proc>>

NextByte ==
    \/ ByteWrite
    \/ ByteLookAt
    \/ ByteSeekToStart
    \/ ByteRead
    \/ ByteReadPast

SpecByte == InitByte /\ [][NextByte]_vars

----------------------------------------------------------------------------
(* A copy loop from the buffer (buff, pos) to a new buffer, other: Read    *)
(* into the chunk S, Write S[:n] to the destination if n > 0, stop when    *)
(* Read has reported io.EOF.  cnt is the number of bytes copied so far.    *)

InitCopy ==
    \E b \in Storages, chunk \in 1..(MaxLen + 1) :
        LET d == NewByteBuffer(0)
        IN  /\ buff = b
            /\ pos = 0
            /\ call = NoCall
            /\ pre = NoPre
            /\ pc = "cp_read"
            /\ S = Make(chunk)
            /\ other = [NoOther EXCEPT !.kind = "dest", !.buff = d.buff, !.pos = d.pos]
            /\ cnt = 0
            /\ proc = NoProcs

CopyRead ==
    /\ pc = "cp_read"
    /\ DoRead(S)
    /\ S' = call'.dst
    /\ pc' = IF call'.n > 0 THEN "cp_write"
             ELSE IF call'.err = "nil" THEN "cp_read" ELSE "cp_done"
    /\ UNCHANGED <<other, cnt, proc>>

\* the call recorded is the Write on the destination; the loop goes on or
\* stops as the Read before it said
CopyWrite ==
    /\ pc = "cp_write"
    /\ LET r == Write(other.buff, other.pos, SliceTo(S, call.n))
       IN  /\ Len(r.buff) <= MaxLen
           /\ other' = [other EXCEPT !.buff = r.buff, !.pos = r.pos]
           /\ call' = Call("Write", SliceTo(S, call.n), 0, 0, r.n, r.err, <<>>, 0)
           /\ cnt' = cnt + r.n
    /\ pre' = Snapshot
    /\ pc' = IF call.err = "nil" THEN "cp_read" ELSE "cp_done"
    /\ UNCHANGED <<buff, pos, S, proc>>

NextCopy ==
    \/ CopyRead
    \/ CopyWrite

SpecCopy == InitCopy /\ [][NextCopy]_vars

\* the loop is not suspended for ever
SpecCopyFair == SpecCopy /\ WF_vars(NextCopy)

----------------------------------------------------------------------------
(* Goroutines that each call ReadAt or ByteAt once on the same buffer,     *)
(* with nothing else called on it.  A call takes several steps, which      *)
(* interleave with the steps of the other calls: the checks of ReadAt,     *)
(* which read len(m.buff); readFromPos, which reads m.buff; the return,    *)
(* through ByteAt when that was the method called.  other keeps the buffer *)
(* as it was at the start; cnt counts the calls that started while another *)
(* was under way.                                                          *)

\* the storages read: the prefixes of a pattern of different bytes
ConcStorages == {SubSeq(<<1, 129, 0, 129, 1>>, 1, k) : k \in 0..MaxLen}

ConcOffsets == -1..MaxLen

InitConc ==
    \E b \in ConcStorages :
        \E c \in {0, Len(b)} :
            /\ buff = b
            /\ pos = c
            /\ call = NoCall
            /\ pre = NoPre
            /\ pc = "conc"
            /\ S = <<>>
            /\ other = [NoOther EXCEPT !.kind = "start", !.orig = b, !.pos0 = c]
            /\ cnt = 0
            /\ proc = NoProcs

\* goroutine i calls ReadAt(p, off), or ByteAt(off), which calls
\* ReadAt(make([]byte, 1), off)
ConcCall(i) ==
    /\ pc = "conc"
    /\ proc[i].pc = "idle"
    /\ \E op \in {"ReadAt", "ByteAt"}, off \in ConcOffsets :
       \E p \in IF op = "ByteAt" THEN {Make(1)} ELSE Dsts :
          proc' = [proc EXCEPT ![i] = [NoProc EXCEPT !.pc = "entered", !.op = op,
                                                     !.off = off, !.p0 = p, !.p = p]]
    /\ cnt' = IF \E j \in Procs \ {i} : proc[j].pc \notin {"idle", "done"}
                THEN cnt + 1 ELSE cnt
    /\ UNCHANGED <<buff, pos, call, pre, pc, S, other>>

\* ReadAt: the sanity checks
ConcCheck(i) ==
    /\ proc[i].pc = "entered"
    /\ proc' = [proc EXCEPT ![i] =
                  IF proc[i].off < 0
                    THEN [@ EXCEPT !.pc = "returned", !.n = -1, !.err = "ErrOffsetNegative"]
                  ELSE IF posOverflow(buff, proc[i].off)
                    THEN [@ EXCEPT !.pc = "returned", !.n = -1, !.err = "ErrOffsetOverflow"]
                  ELSE [@ EXCEPT !.pc = "reading"]]
    /\ UNCHANGED <<buff, pos, call, pre, pc, S, other, cnt>>

\* ReadAt: return m.readFromPos(p, pos, false)
ConcReadFromPos(i) ==
    /\ proc[i].pc = "reading"
    /\ LET r == readFromPos(buff, pos, proc[i].p, proc[i].off, FALSE)
       IN  /\ pos' = r.pos
           /\ proc' = [proc EXCEPT ![i] = [@ EXCEPT !.pc = "returned", !.p = r.p,
                                                    !.n = r.n, !.err = r.err]]
    /\ UNCHANGED <<buff, call, pre, pc, S, other, cnt>>

\* the caller has the results; ByteAt makes its own from those of ReadAt
ConcReturn(i) ==
    /\ proc[i].pc = "returned"
    /\ proc' = [proc EXCEPT ![i] =
                  IF proc[i].op = "ReadAt" THEN [@ EXCEPT !.pc = "done"]
                  ELSE IF proc[i].err # "nil" THEN [@ EXCEPT !.pc = "done", !.val = 0]
                  ELSE IF proc[i].n # 1
                    THEN [@ EXCEPT !.pc = "done", !.val = 0, !.err = "ErrByteRead"]
                  ELSE [@ EXCEPT !.pc = "done", !.val = proc[i].p[1]]]
    /\ UNCHANGED <<buff, pos, call, pre, pc, S, other, cnt>>

NextConc ==
    \E i \in Procs :
        \/ ConcCall(i)
        \/ ConcCheck(i)
        \/ ConcReadFromPos(i)
        \/ ConcReturn(i)

SpecConc == InitConc /\ [][NextConc]_vars

----------------------------------------------------------------------------
(* A caller that only appends to a new buffer, with Write, WriteByte and   *)
(* WriteUInt64Var in any order.  S is the bytes it has handed over, in the *)
(* order of the calls; cnt is the sum of the byte counts returned.         *)

InitAppend ==
    LET r == NewByteBuffer(0)
    IN  /\ buff = r.buff
        /\ pos = r.pos
        /\ call = Call("New", <<>>, 0, 0, 0, "nil", <<>>, 0)
        /\ pre = NoPre
        /\ pc = "append"
        /\ S = <<>>
        /\ other = NoOther
        /\ cnt = 0
        /\ proc = NoProcs

AppendWrite ==
    /\ pc = "append"
    /\ \E p \in Srcs : DoWrite(p) /\ S' = S \o p
    /\ cnt' = cnt + call'.n
    /\ UNCHANGED <<pc, other, proc>>

AppendWriteByte ==
    /\ pc = "append"
    /\ \E c \in {0} \cup SrcBytes : DoWriteByte(c) /\ S' = Append(S, c)
    /\ cnt' = cnt + 1
    /\ UNCHANGED <<pc, other, proc>>

AppendWriteUInt64Var ==
    /\ pc = "append"
    /\ \E x \in VarVals : DoWriteUInt64Var(x) /\ S' = S \o PutUvarint(x)
    /\ cnt' = cnt + call'.n
    /\ UNCHANGED <<pc, other, proc>>

NextAppend ==
    \/ AppendWrite
    \/ AppendWriteByte
    \/ AppendWriteUInt64Var

SpecAppend == InitAppend /\ [][NextAppend]_vars

----------------------------------------------------------------------------
(* Properties.  A state with call.op = "X" is the state in which X has     *)
(* just returned; pre holds the fields X started from.                     *)

SeekOps == {"Seek", "SeekFromStart", "SeekFromCurrent", "SeekFromEnd",
            "SeekToStart", "SeekToEnd"}

\* the target the documentation gives for a seek from the fields before it
SeekTarget == CASE call.whence = SeekStart   -> call.off
                [] call.whence = SeekCurrent -> pre.pos + call.off
                [] call.whence = SeekEnd     -> Len(pre.buff) + call.off
                [] OTHER                     -> -1

KnownWhence == call.whence \in {SeekStart, SeekCurrent, SeekEnd}

Untouched == buff = pre.buff /\ pos = pre.pos

\* C1: in every state reachable from New(size) by public calls, successful
\* or failing, 0 <= cursor <= Size(); the buffer Clone returns satisfies it
\* too.
C1_CursorInBounds ==
    /\ 0 <= pos
    /\ pos <= Size(buff)
    /\ call.op = "Clone" => 0 <= call.n /\ call.n <= Size(call.dst)

\* a read has moved the cursor to the very end of a non-empty buffer
C1_Witness ==
    /\ call.op = "Read"
    /\ pos = Size(buff)
    /\ pos > pre.pos

\* C2 as stated: for every S, the empty one included, Write(S) into
\* NewByteBuffer(0), SeekToStart() and Read into len(S) bytes each return
\* without error, Write and Read return len(S), and the bytes read are S.
C2_RoundTripAnyS ==
    /\ pc = "rt_seek" => call.err = "nil" /\ call.n = Len(S)
    /\ pc = "rt_read" => call.err = "nil" /\ call.n = 0
    /\ pc = "rt_done" => call.err = "nil" /\ call.n = Len(S) /\ call.dst = S

\* C2 amended: the round trip holds for every non-empty S.  For the empty
\* S the buffer stays empty, so SeekToStart fails with ErrSeekOverflow and
\* Read reports io.EOF.
C2_RoundTrip ==
    /\ S # <<>> => C2_RoundTripAnyS
    /\ S = <<>> /\ pc = "rt_read" => call.err = "ErrSeekOverflow"
    /\ S = <<>> /\ pc = "rt_done" => call.err = "EOF"

\* the script has read back a sequence of the longest length
C2_Witness ==
    /\ pc = "rt_done"
    /\ Len(S) = MaxSrc
    /\ call.op = "Read"
    /\ call.dst = S

\* C3: a seek whose target (offset, cursor + offset or Size() + offset) is
\* in [0, Size()) succeeds, sets the cursor to the target, returns it, and
\* leaves the storage alone; a seek that succeeds returns Pos().
C3_SeekSucceeds ==
    call.op \in SeekOps =>
        /\ KnownWhence /\ 0 <= SeekTarget /\ SeekTarget < Size(pre.buff) =>
              /\ call.err = "nil"
              /\ pos = SeekTarget
              /\ call.n = SeekTarget
        /\ call.err = "nil" => call.n = pos
        /\ buff = pre.buff

\* a seek from the end, with a negative offset, has moved the cursor
C3_Witness ==
    /\ call.op = "Seek"
    /\ call.whence = SeekEnd
    /\ call.off < 0
    /\ call.err = "nil"
    /\ pos # pre.pos

\* C4: a seek fails with ErrWhenceUnknown for an unknown whence, with
\* ErrSeekNegative for a target < 0, with ErrSeekOverflow for a target >=
\* Size() (so every seek on an empty buffer fails); a failed seek leaves
\* cursor and storage as they were.
C4_SeekFails ==
    call.op \in SeekOps =>
        /\ ~KnownWhence => call.err = "ErrWhenceUnknown"
        /\ KnownWhence /\ SeekTarget < 0 => call.err = "ErrSeekNegative"
        /\ KnownWhence /\ SeekTarget >= Size(pre.buff) /\ SeekTarget >= 0 =>
              call.err = "ErrSeekOverflow"
        /\ Empty(pre.buff) => call.err # "nil"
        /\ call.err # "nil" => Untouched

\* a seek to exactly Size() of a non-empty buffer has failed
C4_Witness ==
    /\ call.op \in SeekOps
    /\ KnownWhence
    /\ SeekTarget = Size(pre.buff)
    /\ ~Empty(pre.buff)
    /\ call.err = "ErrSeekOverflow"

\* C5: Write(src) at cursor c on storage of length L returns len(src) and
\* no error, and advances the cursor by len(src) - min(L - c, len(src));
\* a write that fits inside the storage leaves the cursor where it was, so
\* the bytes at the cursor are the bytes just written.
C5_WriteAdvancesByGrowth ==
    call.op = "Write" =>
        LET c == pre.pos
            L == Len(pre.buff)
            l == Len(call.src)
        IN  /\ call.err = "nil"
            /\ call.n = l
            /\ pos = c + (l - (IF L - c < l THEN L - c ELSE l))
            /\ c + l <= L =>
                  /\ pos = c
                  /\ SubSeq(buff, pos + 1, pos + l) = call.src

\* a non-empty write has fitted inside the storage
C5_Witness ==
    /\ call.op = "Write"
    /\ call.src # <<>>
    /\ pre.pos + Len(call.src) <= Len(pre.buff)
    /\ buff # pre.buff

C7_WriteAtInsideKeepsCursor ==
    call.op = "WriteAt" =>
        /\ call.err = "nil" /\ call.off + Len(call.src) <= Size(pre.buff) =>
              pos = pre.pos /\ Size(buff) = Size(pre.buff)
        /\ pos # pre.pos => Size(buff) > Size(pre.buff)

\* a WriteAt has overwritten bytes inside the storage, away from the cursor
C7_Witness ==
    /\ call.op = "WriteAt"
    /\ call.err = "nil"
    /\ call.src # <<>>
    /\ call.off + Len(call.src) <= Size(pre.buff)
    /\ pre.pos # call.off
    /\ buff # pre.buff

\* a Write that overwrites up to the old end and appends the rest
PartialWrite ==
    /\ call.op = "Write"
    /\ 0 < Size(pre.buff) - pre.pos
    /\ Size(pre.buff) - pre.pos < Len(call.src)

\* C8 as stated: after a Write that partly overwrites and partly appends,
\* the cursor is the storage length before the write.
C8_PartialWriteCursorAtOldEnd ==
    PartialWrite => pos = Size(pre.buff)

\* C8 amended: after a Write of l bytes at cursor c that partly overwrites
\* and partly appends to storage of length L, the storage has length c + l
\* and the cursor is c + (l - (L - c)); that is the old end L exactly when
\* l = 2 * (L - c), as for "abcdef" written at cursor 3 of "abcdef".
C8_PartialWriteCursor ==
    PartialWrite =>
        LET c == pre.pos
            L == Size(pre.buff)
            l == Len(call.src)
        IN  /\ Size(buff) = c + l
            /\ pos = c + (l - (L - c))
            /\ (pos = L) <=> (l = 2 * (L - c))

\* a partly overlapping Write has left the cursor away from the old end
C8_Witness ==
    /\ PartialWrite
    /\ pos # Size(pre.buff)

\* C9 as stated: Read with the cursor at the end of the storage (an empty
\* buffer included) reports io.EOF with a count of exactly 0 and leaves the
\* cursor and the destination as they were.
C9_ReadAtEndReturnsZero ==
    call.op = "Read" /\ pre.pos >= Size(pre.buff) =>
        /\ call.err = "EOF"
        /\ call.n = 0
        /\ Untouched
        /\ call.dst = call.src

\* C10: Read(dst) with available = Size() - cursor > 0 returns
\* n = min(available, len(dst)), copies storage[cursor : cursor+n] into
\* dst[:n], advances the cursor by n, and reports io.EOF exactly when
\* n < len(dst).
C10_ReadCopiesAndAdvances ==
    call.op = "Read" /\ Size(pre.buff) - pre.pos > 0 =>
        LET avail == Size(pre.buff) - pre.pos
            l     == Len(call.src)
            n     == IF avail < l THEN avail ELSE l
        IN  /\ call.n = n
            /\ Len(call.dst) = l
            /\ SubSeq(call.dst, 1, n) = SubSeq(pre.buff, pre.pos + 1, pre.pos + n)
            /\ SubSeq(call.dst, n + 1, l) = SubSeq(call.src, n + 1, l)
            /\ pos = pre.pos + n
            /\ buff = pre.buff
            /\ (call.err = "EOF") <=> (n < l)
            /\ (call.err = "nil") <=> (l <= avail)

\* a read has consumed exactly the last bytes of the storage
C10_Witness ==
    /\ call.op = "Read"
    /\ call.src # <<>>
    /\ Len(call.src) = Size(pre.buff) - pre.pos
    /\ call.err = "nil"

\* C11: ReadAt and ByteAt never modify the cursor or the storage, whatever
\* they return; for 0 <= offset < Size() ReadAt returns
\* n = min(Size() - offset, len(dst)) with dst[:n] = storage[offset : offset+n].
C11_ReadAtKeepsState ==
    call.op \in {"ReadAt", "ByteAt"} =>
        /\ Untouched
        /\ call.op = "ReadAt" /\ 0 <= call.off /\ call.off < Size(pre.buff) =>
              LET avail == Size(pre.buff) - call.off
                  l     == Len(call.src)
                  n     == IF avail < l THEN avail ELSE l
              IN  /\ call.n = n
                  /\ SubSeq(call.dst, 1, n) =
                         SubSeq(pre.buff, call.off + 1, call.off + n)

\* a ReadAt away from the cursor has returned fewer bytes than asked, with
\* io.EOF
C11_Witness ==
    /\ call.op = "ReadAt"
    /\ call.err = "EOF"
    /\ call.n > 0
    /\ call.n < Len(call.src)
    /\ call.off # pre.pos

\* C12: ReadAt and WriteAt fail with ErrOffsetNegative for offset < 0 and
\* with ErrOffsetOverflow for offset >= Size() (so both always fail on an
\* empty buffer, and WriteAt never starts at the end); cursor and storage
\* are then as they were.
C12_OffsetErrors ==
    call.op \in {"ReadAt", "WriteAt"} =>
        /\ call.off < 0 => call.err = "ErrOffsetNegative"
        /\ call.off >= Size(pre.buff) /\ call.off >= 0 =>
              call.err = "ErrOffsetOverflow"
        /\ Empty(pre.buff) => call.err \in {"ErrOffsetNegative", "ErrOffsetOverflow"}
        /\ call.err \in {"ErrOffsetNegative", "ErrOffsetOverflow"} => Untouched

\* a non-empty WriteAt at the end of a non-empty buffer has been rejected
C12_Witness ==
    /\ call.op = "WriteAt"
    /\ call.src # <<>>
    /\ call.off = Size(pre.buff)
    /\ ~Empty(pre.buff)
    /\ call.err = "ErrOffsetOverflow"

\* C13: WriteByte(b), whatever the cursor, returns no error, appends b at
\* the old end, keeps every stored byte, and sets the cursor to the new
\* Size().
C13_WriteByteAppends ==
    call.op = "WriteByte" =>
        /\ call.err = "nil"
        /\ Size(buff) = Size(pre.buff) + 1
        /\ buff[Size(buff)] = call.src[1]
        /\ SubSeq(buff, 1, Size(pre.buff)) = pre.buff
        /\ pos = Size(buff)

\* a WriteByte has appended while the cursor was inside the storage
C13_Witness ==
    /\ call.op = "WriteByte"
    /\ pre.pos < Size(pre.buff)
    /\ pre.buff[pre.pos + 1] # call.src[1]

\* C14: New(size) and Reset(size), whatever the buffer held, give size zero
\* bytes and cursor 0; Clear() gives Size() = 0, Empty() and Pos() = 0.
C14_ResetZeroes ==
    /\ call.op \in {"New", "Reset"} =>
          /\ Size(buff) = call.off
          /\ \A i \in 1..Size(buff) : buff[i] = 0
          /\ pos = 0
    /\ call.op = "Clear" => Size(buff) = 0 /\ Empty(buff) /\ pos = 0

\* a Reset to a non-zero size has discarded written bytes and a moved cursor
C14_Witness ==
    /\ call.op = "Reset"
    /\ call.off > 0
    /\ pre.pos > 0
    /\ \E i \in 1..Size(pre.buff) : pre.buff[i] # 0

\* C15: Clone() returns a buffer with the storage of the source (CmpWith
\* gives 0) and cursor 0, Bytes() a slice equal to the storage; neither
\* changes the source; a later Write, WriteAt, WriteByte or Reset on the
\* source leaves the clone or the slice as it was, and one on the clone
\* leaves the source as it was.
C15_CloneIndependent ==
    /\ pc = "cl_have" =>
          /\ other.buff = buff
          /\ Untouched
          /\ other.kind = "clone" =>
                /\ other.pos = 0
                /\ CmpWith([buff |-> other.buff, pos |-> other.pos], Snapshot) = 0
    /\ pc = "cl_source" => other.buff = other.orig /\ other.pos = 0
    /\ pc = "cl_clone" => buff = other.orig /\ pos = other.pos0

\* the source of a clone, taken with the cursor moved, has been overwritten
\* in place
C15_Witness ==
    /\ pc = "cl_source"
    /\ other.kind = "clone"
    /\ other.pos0 > 0
    /\ call.op \in {"Write", "WriteAt"}
    /\ Len(buff) = Len(other.orig)
    /\ buff # other.orig

\* a is lexicographically less than b: equal up to j, and there a ends or
\* has the smaller byte
LexLess(a, b) ==
    \E j \in 0..Len(a) :
        /\ j <= Len(b)
        /\ SubSeq(a, 1, j) = SubSeq(b, 1, j)
        /\ \/ j = Len(a) /\ j < Len(b)
           \/ j < Len(a) /\ j < Len(b) /\ a[j + 1] < b[j + 1]

\* C16: CmpWith gives -1, 0 or +1 as the storages compare
\* lexicographically (a proper prefix is less), is antisymmetric and
\* transitive, gives 0 exactly for equal storages, and does not depend on
\* the cursors.
C16_CmpWithLexOrder ==
    pc = "cmp_done" =>
        LET ab == call.n
            ba == call.dst[1]
            bc == call.dst[2]
            ac == call.dst[3]
        IN  /\ ab \in {-1, 0, 1}
            /\ (ab = -1) <=> LexLess(buff, other.buff)
            /\ (ab = 1) <=> LexLess(other.buff, buff)
            /\ (ab = 0) <=> (buff = other.buff)
            /\ ba = -ab
            /\ ab <= 0 /\ bc <= 0 => ac <= 0
            /\ ab <= 0 /\ bc <= 0 /\ (ab < 0 \/ bc < 0) => ac < 0

\* a buffer whose storage is a proper prefix of the other's has compared
\* less, with both cursors moved
C16_Witness ==
    /\ pc = "cmp_done"
    /\ buff # <<>>
    /\ Len(buff) < Len(other.buff)
    /\ SubSeq(other.buff, 1, Len(buff)) = buff
    /\ pos > 0
    /\ other.pos > 0
    /\ call.n = -1

\* C17: the values written with WriteUInt64Var into a new buffer are, after
\* SeekToStart, returned by as many ReadUInt64Var calls in the order
\* written; the cursor is then at Size(), and one more ReadUInt64Var fails
\* with io.EOF.
C17_VarintRoundTrip ==
    /\ pc = "var_read" /\ call.op = "ReadUInt64Var" =>
          call.err = "nil" /\ call.val = S[cnt]
    /\ pc = "var_read" /\ cnt = Len(S) => pos = Size(buff)
    /\ pc = "var_done" =>
          call.op = "ReadUInt64Var" /\ call.err = "EOF" /\ pos = Size(buff)

\* a one-byte, a two-byte and no other value were written and read back,
\* and the read past the last one has failed
C17_Witness ==
    /\ pc = "var_done"
    /\ Len(S) = 2
    /\ S[1] < 128
    /\ S[2] >= 128
    /\ cnt = 2

\* C18: after n >= 1 WriteByte calls on a new buffer ByteAt(i) returns the
\* i-th byte written, for 0 <= i < n, and leaves the cursor; after
\* SeekToStart n ReadByte calls return the bytes in order, each moving the
\* cursor by one, and the next ReadByte fails with io.EOF.
C18_ByteRoundTrip ==
    /\ pc = "b_at" /\ call.op = "ByteAt" =>
          /\ call.err = "nil"
          /\ call.val = S[call.off + 1]
          /\ pos = pre.pos
    /\ pc = "b_read" /\ call.op = "SeekToStart" => call.err = "nil" /\ pos = 0
    /\ pc = "b_read" /\ call.op = "ReadByte" =>
          /\ call.err = "nil"
          /\ call.val = S[cnt]
          /\ pos = pre.pos + 1
    /\ pc = "b_done" => call.op = "ReadByte" /\ call.err = "EOF"

\* the last of several different bytes has been looked at with ByteAt
C18_Witness ==
    /\ pc = "b_at"
    /\ call.op = "ByteAt"
    /\ Len(S) > 1
    /\ call.off = Len(S) - 1
    /\ S[1] # S[Len(S)]
    /\ call.val = S[Len(S)]

\* C19: the copy loop ends, no call of it reports an error other than
\* io.EOF, and when it has ended the count of bytes copied is the Size() of
\* the source and the storage of the destination is that of the source
\* (CmpWith gives 0).
C19_CopyLoopCompletes ==
    /\ [](call.err \in {"nil", "EOF"})
    /\ <>(pc = "cp_done")
    /\ [](pc = "cp_done" =>
            /\ cnt = Size(buff)
            /\ other.buff = buff
            /\ CmpWith([buff |-> other.buff, pos |-> other.pos],
                       [buff |-> buff, pos |-> pos]) = 0)

\* the loop has ended after a full chunk and a short one
C19_Witness ==
    /\ pc = "cp_done"
    /\ Len(S) > 1
    /\ cnt > Len(S)
    /\ cnt % Len(S) # 0
    /\ other.buff = buff

\* what the call of goroutine i returns when it runs alone on the buffer as
\* it was at the start
AloneReadAt(i) == ReadAt(other.orig, other.pos0, proc[i].p0, proc[i].off)

AloneByteAt(i) == ByteAt(other.orig, other.pos0, proc[i].off)

\* C20: ReadAt and ByteAt calls that run concurrently on a buffer, with no
\* other call on it, return under every interleaving the bytes, count and
\* status they return when run alone, and leave cursor and storage as they
\* were.
C20_ConcurrentReadsAgree ==
    /\ buff = other.orig
    /\ pos = other.pos0
    /\ \A i \in Procs :
          proc[i].pc = "done" =>
              /\ proc[i].op = "ReadAt" =>
                    /\ proc[i].n = AloneReadAt(i).n
                    /\ proc[i].err = AloneReadAt(i).err
                    /\ proc[i].p = AloneReadAt(i).p
              /\ proc[i].op = "ByteAt" =>
                    /\ proc[i].val = AloneByteAt(i).val
                    /\ proc[i].err = AloneByteAt(i).err

\* two calls that overlapped have returned: a ReadAt that copied bytes and
\* a ByteAt that found its byte, on a buffer whose cursor is not at 0
C20_Witness ==
    /\ pc = "conc"
    /\ cnt > 0
    /\ pos > 0
    /\ \A i \in Procs : proc[i].pc = "done"
    /\ \E i \in Procs : proc[i].op = "ReadAt" /\ proc[i].n > 1
    /\ \E i \in Procs : proc[i].op = "ByteAt" /\ proc[i].err = "nil" /\ proc[i].val = 129


\* C21: Write(src) at cursor c, and a successful WriteAt(src, c), on storage
\* of length L give storage of length max(L, c + len(src)) that holds src
\* at [c, c + len(src)) and its previous bytes everywhere else below L; the
\* storage does not shrink.
C21_WriteFrame ==
    call.op = "Write" \/ (call.op = "WriteAt" /\ call.err = "nil") =>
        LET c   == IF call.op = "Write" THEN pre.pos ELSE call.off
            L   == Len(pre.buff)
            src == call.src
            end == c + Len(src)
        IN  /\ Len(buff) = IF L > end THEN L ELSE end
            /\ Len(buff) >= L
            /\ \A j \in 1..Len(buff) :
                  IF c < j /\ j <= end THEN buff[j] = src[j - c]
                                       ELSE buff[j] = pre.buff[j]

\* a Write from inside the storage has overwritten its last byte with a
\* different one and appended more
C21_Witness ==
    /\ call.op = "Write"
    /\ pre.pos > 0
    /\ pre.pos < Len(pre.buff)
    /\ pre.pos + Len(call.src) > Len(pre.buff)
    /\ buff[pre.pos + 1] # pre.buff[pre.pos + 1]

\* a call has brought the buffer to a state with the cursor at the end of
\* non-empty storage: it is there now and it did not just stay there
ArrivedAtEnd ==
    /\ call.op \notin {"none", "New"}
    /\ pos = Len(buff)
    /\ Len(buff) > 0
    /\ ~(pos = pre.pos /\ Len(buff) = Len(pre.buff))

\* C22 as stated: no Seek brings the cursor to Size(), and the call that
\* brought it there is a Write (WriteUInt64Var is one) or a WriteByte.
C22_OnlyWritesReachEnd ==
    ArrivedAtEnd => pos # pre.pos /\ call.op \in {"Write", "WriteUInt64Var", "WriteByte"}

\* C22: no Seek brings the cursor to Size(); the call that brought it to
\* the end of non-empty storage moved it, and is a Write, WriteByte,
\* WriteUInt64Var or growing WriteAt, or a Read, ReadByte or ReadUInt64Var
\* that consumed the last byte.
C22_ReadsAndWritesReachEnd ==
    /\ call.op \in SeekOps /\ call.err = "nil" => pos < Len(buff)
    /\ ArrivedAtEnd =>
          /\ pos # pre.pos
          /\ call.op \in {"Write", "WriteUInt64Var", "WriteByte", "WriteAt",
                          "Read", "ReadByte", "ReadUInt64Var"}

\* a Read from inside the storage has consumed the last bytes
C22_Witness ==
    /\ ArrivedAtEnd
    /\ call.op = "Read"
    /\ pre.pos > 0
    /\ call.n > 1


\* the bytes from the cursor on, before the call, all have the continuation
\* bit set, and there is at least one: the storage ends inside a varint
EndsMidVarint ==
    /\ pre.pos < Len(pre.buff)
    /\ \A j \in (pre.pos + 1)..Len(pre.buff) : pre.buff[j] >= 128

\* C23: a ReadUInt64Var that fails, at the end of the storage or inside a
\* varint, leaves cursor and storage as they were.
C23_FailedVarReadKeepsState ==
    call.op = "ReadUInt64Var" /\ call.err # "nil" => Untouched

\* C24: when the storage ends inside a varint ReadUInt64Var fails with
\* io.EOF, the error of ReadByte at the end of the storage.
C24_MidVarintIsEOF ==
    call.op = "ReadUInt64Var" /\ EndsMidVarint => call.err = "EOF"

\* C25: ReadByte returns storage[cursor] and moves the cursor by one when
\* cursor < Size(), and fails with io.EOF leaving the cursor when
\* cursor = Size(); ByteAt(pos) returns storage[pos] or fails with
\* ErrOffsetNegative or ErrOffsetOverflow; neither returns ErrByteRead.
C25_ByteReadErrorUnreachable ==
    /\ call.op = "ReadByte" =>
          /\ pre.pos <= Size(pre.buff)
          /\ pre.pos < Size(pre.buff) =>
                /\ call.err = "nil"
                /\ call.val = pre.buff[pre.pos + 1]
                /\ pos = pre.pos + 1
          /\ pre.pos = Size(pre.buff) => call.err = "EOF" /\ pos = pre.pos
          /\ buff = pre.buff
    /\ call.op = "ByteAt" =>
          /\ call.off < 0 => call.err = "ErrOffsetNegative"
          /\ call.off >= Size(pre.buff) => call.err = "ErrOffsetOverflow"
          /\ 0 <= call.off /\ call.off < Size(pre.buff) =>
                call.err = "nil" /\ call.val = pre.buff[call.off + 1]
          /\ Untouched
    /\ call.op \in {"ReadByte", "ByteAt"} => call.err # "ErrByteRead"

\* ReadByte has returned the last byte of the storage
C25_Witness ==
    /\ call.op = "ReadByte"
    /\ call.err = "nil"
    /\ pre.pos > 0
    /\ pre.pos = Size(pre.buff) - 1
    /\ call.val = 129

\* C26: SeekToEnd fails with ErrSeekOverflow in every state and leaves the
\* cursor; SeekFromCurrent(0) fails with ErrSeekOverflow when the cursor is
\* at Size().
C26_SeekToEndFails ==
    /\ call.op = "SeekToEnd" => call.err = "ErrSeekOverflow" /\ Untouched
    /\ call.op = "SeekFromCurrent" /\ call.off = 0 /\ pre.pos = Size(pre.buff) =>
          call.err = "ErrSeekOverflow" /\ Untouched

\* SeekToEnd has failed on non-empty storage with the cursor inside it
C26_Witness ==
    /\ call.op = "SeekToEnd"
    /\ call.err = "ErrSeekOverflow"
    /\ Size(buff) > 1
    /\ pos > 0
    /\ pos < Size(buff)


\* C27: on a new buffer that is only written with Write, WriteByte and
\* WriteUInt64Var the cursor is at Size() after every call, Size() is the
\* number of bytes written, and the storage is the bytes written in the
\* order of the calls; no call changes a byte written before.
C27_AppendMode ==
    pc = "append" =>
        /\ pos = Size(buff)
        /\ Size(buff) = cnt
        /\ buff = S
        /\ call.op # "New" => SubSeq(buff, 1, Len(pre.buff)) = pre.buff

\* a two-byte varint has been written after a WriteByte or a Write of one
\* byte
C27_Witness ==
    /\ pc = "append"
    /\ call.op = "WriteUInt64Var"
    /\ call.val = 129
    /\ Len(pre.buff) = 1
    /\ Len(buff) = 3
    /\ cnt = 3

====
